---- MODULE Spec2Model ----
(***************************************************************************)
(* A model of dbcrossbar's PostgreSQL local-data writer                    *)
(* (drivers/postgres/write_local_data.rs): the table lifecycle chosen by   *)
(* IfExists, the COPY statement, and the loop that loads the stream of     *)
(* CSV streams one stream at a time through a background COPY.             *)
(***************************************************************************)
EXTENDS Integers, Sequences, FiniteSets, TLC

\* ---------------------------------------------------------------- bounds
MaxStreams == 3
MaxCols == 2
Chunks == 2

\* ---------------------------------------------------------------- inputs
Policies == {"Overwrite", "Append", "Error"}
ColNames == {"a", "b"}
PgDataTypes == {"Scalar", "Array"}
PgColumn == [name : ColNames, data_type : PgDataTypes]

SeqsUpTo(S, lo, hi) == UNION {[1..n -> S] : n \in lo..hi}

\* All schemas of 1..MaxCols columns.
Schemas == SeqsUpTo(PgColumn, 1, MaxCols)

\* The source's stream of streams: CSV streams, optionally ended by an error.
\* The loop returns at the first error (line 170), so nothing after it is read.
DataStreams ==
    {d \in SeqsUpTo({"Stream", "Err"}, 0, MaxStreams) :
        \A i \in 1..Len(d) : d[i] = "Err" => i = Len(d)}

\* Rows of the destination table: the rows CSV stream i carries, and the rows
\* a table that existed before the transfer may hold.
Rows(i) == {<<i, k>> : k \in 1..Chunks}
OldRows == {<<0, 1>>}
Absent == [present |-> FALSE, rows |-> {}]
Destinations ==
    {Absent, [present |-> TRUE, rows |-> {}], [present |-> TRUE, rows |-> OldRows]}

VARIABLES
    if_exists,   \* the IfExists policy of the call
    columns,     \* pg_create_table.columns
    data,        \* the stream of CSV streams handed to the call
    db0,         \* the destination table before the call
    db,          \* the destination table now
    calls,       \* backend calls made so far, in order
    conns,       \* connections open now: <<"prep", 0>>, or <<"copy", i>> for stream i
    opened,      \* number of connections opened so far
    pc,          \* position of write_local_data_helper / of its future
    result,      \* what write_local_data_helper returned: none, ok, err
    handles,     \* number of futures in the returned stream
    fut,         \* the returned future: none, pending, ok, err, dropped
    error,       \* which step failed
    copy_sql,    \* the COPY statement built by copy_from_sql
    pos,         \* number of CSV streams taken from data
    copyState,   \* per CSV stream: idle, dispatched, open, sending, committed, failed
    copySent,    \* per CSV stream: chunks read by copy_in so far
    copy_used    \* per CSV stream: the COPY statement its copy_from prepared

VARIABLES
    loc_s,       \* the string handed to BigQueryLocator::from_str
    loc_parsed,  \* what from_str returned for it
    loc_shown    \* what Display wrote for the parsed locator

VARIABLES
    cap_last,    \* the last supports_write_remote_data query and its answer
    cap_seen     \* per kind of source: the answers given so far

VARIABLES
    ld_temp,     \* temporary_storage handed to local_data_helper
    ld_query,    \* query handed to local_data_helper
    ld_args,     \* args handed to local_data_helper
    ld_pc,       \* position of local_data_helper
    ld_calls,    \* calls made on the temporary gs:// locator, in order
    ld_staged,   \* how the write to temporary storage ended: none, ok, err
    ld_result    \* what local_data_helper returned

locvars == <<loc_s, loc_parsed, loc_shown>>
capvars == <<cap_last, cap_seen>>
ldvars == <<ld_temp, ld_query, ld_args, ld_pc, ld_calls, ld_staged, ld_result>>
bqvars == <<locvars, capvars, ldvars>>

pgvars == <<if_exists, columns, data, db0, db, calls, conns, opened, pc, result,
            handles, fut, error, copy_sql, pos, copyState, copySent, copy_used>>

inputs == <<if_exists, columns, data, db0>>
loopvars == <<pos, copyState, copySent>>

StreamIds == 1..MaxStreams

PgInit ==
    /\ if_exists \in Policies
    /\ columns \in Schemas
    /\ data \in DataStreams
    /\ db0 \in Destinations
    /\ db = db0
    /\ calls = <<>>
    /\ conns = {}
    /\ opened = 0
    /\ pc = "start"
    /\ result = "none"
    /\ handles = 0
    /\ fut = "none"
    /\ error = "none"
    /\ copy_sql = <<>>
    /\ pos = 0
    /\ copyState = [i \in StreamIds |-> "idle"]
    /\ copySent = [i \in StreamIds |-> 0]
    /\ copy_used = [i \in StreamIds |-> <<>>]

\* No write_local_data call is running.
PgIdle ==
    /\ if_exists = "Overwrite"
    /\ columns = <<>>
    /\ data = <<>>
    /\ db0 = Absent
    /\ db = Absent
    /\ calls = <<>>
    /\ conns = {}
    /\ opened = 0
    /\ pc = "idle"
    /\ result = "none"
    /\ handles = 0
    /\ fut = "none"
    /\ error = "none"
    /\ copy_sql = <<>>
    /\ pos = 0
    /\ copyState = [i \in StreamIds |-> "idle"]
    /\ copySent = [i \in StreamIds |-> 0]
    /\ copy_used = [i \in StreamIds |-> <<>>]

\* ------------------------------------------------------ table lifecycle

\* DROP TABLE IF EXISTS, autocommitted; ok = the backend call went through.
drop_table_if_exists(d, ok) ==
    [ok |-> ok,
     db |-> IF ok THEN Absent ELSE d,
     calls |-> <<"DROP TABLE IF EXISTS">>]

\* CREATE TABLE [IF NOT EXISTS], autocommitted. Without the guard the backend
\* itself refuses an existing table.
create_table(d, guard, ok) ==
    [ok |-> ok /\ (d.present => guard),
     db |-> IF ok /\ ~d.present THEN [present |-> TRUE, rows |-> {}] ELSE d,
     calls |-> <<IF guard THEN "CREATE TABLE IF NOT EXISTS" ELSE "CREATE TABLE">>]

drops_never(policy) == FALSE

drops_unless_error(policy) == policy \in {"Overwrite", "Append"}

\* Which policy drops the table first.
drops_first(policy) == policy = "Overwrite"

if_not_exists_unless_overwrite(policy) == policy \in {"Append", "Error"}

\* pg_create_table.if_not_exists as set per policy.
if_not_exists(policy) == policy = "Append"

prepare_table(d, policy, dropOk, createOk) ==
    LET dropped == IF drops_first(policy)
                   THEN drop_table_if_exists(d, dropOk)
                   ELSE [ok |-> TRUE, db |-> d, calls |-> <<>>]
        created == create_table(dropped.db, if_not_exists(policy), createOk)
    IN  IF ~dropped.ok
        THEN [ok |-> FALSE, db |-> dropped.db, calls |-> dropped.calls,
              error |-> "drop"]
        ELSE [ok |-> created.ok, db |-> created.db,
              calls |-> dropped.calls \o created.calls,
              error |-> IF created.ok THEN "none" ELSE "create"]

\* ------------------------------------------------------- COPY statement

IsArray(col) == col.data_type = "Array"

copy_from_sql_trailing_comma(cols) ==
    LET bad == {i \in 1..Len(cols) : cols[i].data_type = "Array"}
    IN  IF bad # {}
        THEN [ok |-> FALSE, sql |-> <<>>,
              col |-> cols[CHOOSE i \in bad : \A j \in bad : i <= j].name]
        ELSE [ok |-> TRUE,
              sql |-> [i \in 1..Len(cols) |-> [name |-> cols[i].name, comma |-> TRUE]],
              col |-> ""]

\* The column lines of the COPY statement: name and whether a comma follows.
\* Fails at the first array column.
copy_from_sql(cols) ==
    LET bad == {i \in 1..Len(cols) : IsArray(cols[i])}
    IN  IF bad # {}
        THEN [ok |-> FALSE, sql |-> <<>>,
              col |-> cols[CHOOSE i \in bad : \A j \in bad : i <= j].name]
        ELSE [ok |-> TRUE,
              sql |-> [i \in 1..Len(cols) |->
                         [name |-> cols[i].name, comma |-> i # Len(cols)]],
              col |-> ""]

\* --------------------------------------- write_local_data_helper: set-up

release_leaked(cs, c) == cs

\* A connection goes out of scope (drop(conn), or the end of its function).
release(cs, c) == cs \ {c}

Fail(kind) ==
    /\ pc' = "done"
    /\ result' = "err"
    /\ error' = kind

\* PgCreateTable::from_name_and_columns(...)?
Translate ==
    /\ pc = "start"
    /\ \E ok \in BOOLEAN :
         IF ok THEN pc' = "translated" /\ UNCHANGED <<result, error>>
               ELSE Fail("translate")
    /\ UNCHANGED <<bqvars, inputs, copy_used, db, calls, conns, opened, handles, fut, copy_sql, loopvars>>

\* connect(&url)?
Connect ==
    /\ pc = "translated"
    /\ calls' = Append(calls, "connect")
    /\ \E ok \in BOOLEAN :
         IF ok THEN /\ pc' = "connected"
                    /\ conns' = conns \cup {<<"prep", 0>>}
                    /\ opened' = opened + 1
                    /\ UNCHANGED <<result, error>>
               ELSE /\ Fail("connect")
                    /\ UNCHANGED <<conns, opened>>
    /\ UNCHANGED <<bqvars, inputs, copy_used, db, handles, fut, copy_sql, loopvars>>

\* prepare_table(&ctx, &conn, pg_create_table.clone(), if_exists)?; drop(conn)
PrepareTable ==
    /\ pc = "connected"
    /\ \E dropOk \in BOOLEAN, createOk \in BOOLEAN :
         LET r == prepare_table(db, if_exists, dropOk, createOk)
         IN  /\ db' = r.db
             /\ calls' = calls \o r.calls
             /\ IF r.ok THEN pc' = "prepared" /\ UNCHANGED <<result, error>>
                        ELSE Fail(r.error)
    /\ conns' = release(conns, <<"prep", 0>>)
    /\ UNCHANGED <<bqvars, inputs, copy_used, opened, handles, fut, copy_sql, loopvars>>

box_stream_per_item == Len(data)

\* The stream this call returns holds one future.
box_stream_once == 1

\* copy_from_sql(&pg_create_table, "BINARY")?, then the future is built and
\* returned inside a one-element stream; nothing of it runs yet.
BuildCopySql ==
    /\ pc = "prepared"
    /\ LET r == copy_from_sql(columns)
       IN  IF r.ok
           THEN /\ copy_sql' = r.sql
                /\ pc' = "loop"
                /\ result' = "ok"
                /\ handles' = box_stream_once
                /\ fut' = "pending"
                /\ UNCHANGED error
           ELSE /\ Fail("array")
                /\ UNCHANGED <<copy_sql, handles, fut>>
    /\ UNCHANGED <<bqvars, inputs, copy_used, db, calls, conns, opened, loopvars>>

\* ------------------------------------- the future: one stream at a time

after_dispatch_detached == "loop"

after_dispatch_never_woken == "parked"

\* Where the future goes after handing a CSV stream to copy_from_async: it
\* awaits that COPY.
after_dispatch == "await_copy"

copy_result_ignored(st) == TRUE

\* The `?` on the awaited COPY: only a successful COPY lets the loop go on.
copy_succeeded(st) == st = "committed"

next_item_end_as_err(d, p) == IF p = Len(d) THEN "Err" ELSE d[p + 1]

next_item_err_as_end(d, p) == IF p = Len(d) \/ d[p + 1] = "Err" THEN "None" ELSE d[p + 1]

\* What is taken from data at position p: a CSV stream, an error, or the end.
next_item(d, p) == IF p = Len(d) THEN "None" ELSE d[p + 1]

\* One turn of the loop, from `await!(data.into_future())` up to the next
\* await: end of data, an error of the source, or a CSV stream whose
\* transform is spawned and whose COPY is handed to the background.
PollData ==
    /\ pc = "loop"
    /\ fut = "pending"
    /\ LET item == next_item(data, pos)
       IN  CASE item = "None" ->
                  /\ fut' = "ok"
                  /\ pc' = "done"
                  /\ UNCHANGED <<error, pos, copyState>>
             [] item = "Err" ->
                  /\ fut' = "err"
                  /\ error' = "source"
                  /\ pc' = "done"
                  /\ UNCHANGED <<pos, copyState>>
             [] item = "Stream" ->
                  /\ pos' = pos + 1
                  /\ \E spawnOk \in BOOLEAN :
                       IF spawnOk
                       THEN /\ copyState' = [copyState EXCEPT ![pos + 1] = "dispatched"]
                            /\ pc' = after_dispatch
                            /\ UNCHANGED <<fut, error>>
                       ELSE /\ fut' = "err"
                            /\ error' = "spawn"
                            /\ pc' = "done"
                            /\ UNCHANGED copyState
    /\ UNCHANGED <<bqvars, inputs, copy_used, db, calls, conns, opened, result, handles, copy_sql, copySent>>

next_turn_prepares_again == "translated"

\* Where the future goes after a successful COPY: round the loop, to the next
\* `await!(data.into_future())`.
next_turn == "loop"

\* The awaited COPY has returned: go round the loop, or fail with its error.
Resume ==
    /\ pc = "await_copy"
    /\ fut = "pending"
    /\ copyState[pos] \in {"committed", "failed"}
    /\ IF copy_succeeded(copyState[pos])
       THEN /\ pc' = next_turn
            /\ UNCHANGED <<fut, error>>
       ELSE /\ fut' = "err"
            /\ error' = "copy"
            /\ pc' = "done"
    /\ UNCHANGED <<bqvars, inputs, copy_used, db, calls, conns, opened, result, handles, copy_sql, loopvars>>

\* The caller drops the future at one of its awaits.
Cancel ==
    /\ fut = "pending"
    /\ fut' = "dropped"
    /\ UNCHANGED <<bqvars, inputs, copy_used, db, calls, conns, opened, pc, result, handles, error,
                   copy_sql, loopvars>>

\* ------------------------------ copy_from_async: the background closure

CopyFailed(i) ==
    /\ copyState' = [copyState EXCEPT ![i] = "failed"]
    /\ conns' = release(conns, <<"copy", i>>)

\* connect(&url)? inside the closure
copy_connect(i) ==
    /\ copyState[i] = "dispatched"
    /\ calls' = Append(calls, "connect")
    /\ \E ok \in BOOLEAN :
         IF ok THEN /\ copyState' = [copyState EXCEPT ![i] = "open"]
                    /\ conns' = conns \cup {<<"copy", i>>}
                    /\ opened' = opened + 1
               ELSE /\ CopyFailed(i)
                    /\ UNCHANGED opened
    /\ UNCHANGED <<bqvars, inputs, copy_used, db, pc, result, handles, fut, error, copy_sql, pos, copySent>>

\* conn.prepare(copy_from_sql)?, then copy_in starts
copy_prepare(i) ==
    /\ copyState[i] = "open"
    /\ calls' = Append(calls, "COPY")
    /\ copy_used' = [copy_used EXCEPT ![i] = copy_sql]
    /\ \E ok \in BOOLEAN :
         IF ok /\ db.present
         THEN copyState' = [copyState EXCEPT ![i] = "sending"] /\ UNCHANGED conns
         ELSE CopyFailed(i)
    /\ UNCHANGED <<bqvars, inputs, db, opened, pc, result, handles, fut, error, copy_sql, pos, copySent>>

copy_in_chunk_visible(d, i, k) == [d EXCEPT !.rows = @ \cup {<<i, k>>}]

\* The table while copy_in has read k chunks of stream i: a COPY is one
\* statement, none of its rows is visible before it ends.
copy_in_chunk(d, i, k) == d

\* The table once copy_in has ended successfully.
copy_in_end(d, i) == [d EXCEPT !.rows = @ \cup Rows(i)]

\* copy_in reads one more chunk from the reader, or the read fails.
copy_chunk(i) ==
    /\ copyState[i] = "sending"
    /\ copySent[i] < Chunks
    /\ \E ok \in BOOLEAN :
         IF ok THEN /\ copySent' = [copySent EXCEPT ![i] = @ + 1]
                    /\ db' = copy_in_chunk(db, i, copySent[i] + 1)
                    /\ UNCHANGED <<copyState, conns>>
               ELSE /\ CopyFailed(i)
                    /\ UNCHANGED <<copySent, db>>
    /\ UNCHANGED <<bqvars, inputs, copy_used, calls, opened, pc, result, handles, fut, error, copy_sql, pos>>

\* copy_in reaches the end of the reader; the closure returns and its
\* connection goes out of scope.
copy_end(i) ==
    /\ copyState[i] = "sending"
    /\ copySent[i] = Chunks
    /\ \E ok \in BOOLEAN :
         IF ok THEN /\ db' = copy_in_end(db, i)
                    /\ copyState' = [copyState EXCEPT ![i] = "committed"]
                    /\ conns' = release(conns, <<"copy", i>>)
               ELSE /\ CopyFailed(i)
                    /\ UNCHANGED db
    /\ UNCHANGED <<bqvars, inputs, copy_used, calls, opened, pc, result, handles, fut, error, copy_sql, pos, copySent>>

copy_from_async ==
    \E i \in StreamIds :
        \/ copy_connect(i)
        \/ copy_prepare(i)
        \/ copy_chunk(i)
        \/ copy_end(i)

write_local_data_helper ==
    \/ Translate
    \/ Connect
    \/ PrepareTable
    \/ BuildCopySql
    \/ PollData
    \/ Resume


\* ------------------------------------------ BigQueryLocator: the address

\* Longest resource path tried after the scheme.
MaxPath == 5

\* Strings are sequences of characters.
BIGQUERY_SCHEME == <<"b", "i", "g", "q", "u", "e", "r", "y", ":">>

\* The text Display writes before the table name.
display_scheme_no_colon == <<"b", "i", "g", "q", "u", "e", "r", "y">>

display_scheme == <<"b", "i", "g", "q", "u", "e", "r", "y", ":">>

PathChars == {"p", "d", ":", "."}

\* What a locator string may start with: nothing, the scheme, the scheme
\* without its colon, or another scheme (of the same length, or shorter).
Starts ==
    {<<>>, BIGQUERY_SCHEME, <<"b", "i", "g", "q", "u", "e", "r", "y">>,
     <<"p", "o", "s", "t", "g", "r", "e", "s", ":">>, <<"g", "s", ":">>}

LocatorStrings == {st \o r : st \in Starts, r \in SeqsUpTo(PathChars, 0, MaxPath)}

starts_with(str, prefix) ==
    /\ Len(str) >= Len(prefix)
    /\ SubSeq(str, 1, Len(prefix)) = prefix

\* Positions of character c in str.
Find(str, c) == {i \in 1..Len(str) : str[i] = c}
First(S) == CHOOSE i \in S : \A j \in S : i <= j

\* TableName::from_str: project:dataset.table, each part non-empty and free
\* of separators.
table_name_from_str(str) ==
    LET colons == Find(str, ":")
        dots == Find(str, ".")
        c == First(colons)
        d == First(dots)
    IN  IF Cardinality(colons) = 1 /\ Cardinality(dots) = 1
           /\ 1 < c /\ c + 1 < d /\ d < Len(str)
        THEN [ok |-> TRUE,
              project |-> SubSeq(str, 1, c - 1),
              dataset |-> SubSeq(str, c + 1, d - 1),
              table |-> SubSeq(str, d + 1, Len(str))]
        ELSE [ok |-> FALSE, project |-> <<>>, dataset |-> <<>>, table |-> <<>>]

\* Display for TableName.
table_name_display(t) == t.project \o <<":">> \o t.dataset \o <<".">> \o t.table

from_str_unchecked(str) ==
    table_name_from_str(SubSeq(str, Len(BIGQUERY_SCHEME) + 1, Len(str)))

\* impl FromStr for BigQueryLocator
from_str(str) ==
    IF ~starts_with(str, BIGQUERY_SCHEME)
    THEN [ok |-> FALSE, project |-> <<>>, dataset |-> <<>>, table |-> <<>>]
    ELSE table_name_from_str(SubSeq(str, Len(BIGQUERY_SCHEME) + 1, Len(str)))

\* impl fmt::Display for BigQueryLocator
display(loc) == display_scheme \o table_name_display(loc)

NotParsed == [state |-> "none", ok |-> FALSE, project |-> <<>>, dataset |-> <<>>,
              table |-> <<>>]

LocInit ==
    /\ loc_s \in LocatorStrings
    /\ loc_parsed = NotParsed
    /\ loc_shown = <<>>

LocIdle ==
    /\ loc_s = <<>>
    /\ loc_parsed = NotParsed
    /\ loc_shown = <<>>

\* loc_s.parse::<BigQueryLocator>()
Parse ==
    /\ loc_parsed.state = "none"
    /\ LET r == from_str(loc_s)
       IN  loc_parsed' = [state |-> "done", ok |-> r.ok, project |-> r.project,
                          dataset |-> r.dataset, table |-> r.table]
    /\ UNCHANGED <<loc_s, loc_shown, pgvars, capvars, ldvars>>

\* format!("{}", locator)
Show ==
    /\ loc_parsed.state = "done"
    /\ loc_parsed.ok
    /\ loc_shown = <<>>
    /\ loc_shown' = display(loc_parsed)
    /\ UNCHANGED <<loc_s, loc_parsed, pgvars, capvars, ldvars>>

\* ------------------------------- BigQueryLocator: capability negotiation

LocatorKinds == {"bigquery", "gs", "postgres", "s3", "csv"}
Addresses == {"x", "y"}
Locators == [kind : LocatorKinds, addr : Addresses]
BigQueryLocators == {l \in Locators : l.kind = "bigquery"}

supports_any_cloud_source(self, source) == source.kind \in {"gs", "s3"}

supports_one_bucket(self, source) == source.kind = "gs" /\ source.addr = "x"

\* source.as_any().is::<GsLocator>()
supports_write_remote_data(self, source) == source.kind = "gs"

NoQuery == [asked |-> FALSE, dest |-> [kind |-> "bigquery", addr |-> "x"],
            source |-> [kind |-> "bigquery", addr |-> "x"], answer |-> FALSE]

CapInit ==
    /\ cap_last = NoQuery
    /\ cap_seen = [k \in LocatorKinds |-> {}]

CapIdle == CapInit

\* dest.supports_write_remote_data(&source), for any destination and source
Supports ==
    \E dest \in BigQueryLocators, source \in Locators :
        LET answer == supports_write_remote_data(dest, source)
        IN  /\ cap_last' = [asked |-> TRUE, dest |-> dest, source |-> source,
                            answer |-> answer]
            /\ cap_seen' = [cap_seen EXCEPT ![source.kind] = @ \cup {answer}]
            /\ UNCHANGED <<pgvars, locvars, ldvars>>

\* ------------------------------------------- BigQuery local_data_helper

TempLocations == {"gs://temp", "s3://temp", "file:///tmp"}
TemporaryStorages == SUBSET TempLocations
Queries == {"default", "where"}
DriverArgsSet == {"default", "custom"}

IsGs(l) == l = "gs://temp"

\* find_gs_temp_dir(&temporary_storage): the gs:// location configured, or an
\* error when there is none.
find_gs_temp_dir(temp) ==
    IF \E l \in temp : IsGs(l)
    THEN [ok |-> TRUE, gs_temp |-> CHOOSE l \in temp : IsGs(l)]
    ELSE [ok |-> FALSE, gs_temp |-> ""]

after_find_unchecked(ok) == "resolved"

\* The `?` on find_gs_temp_dir.
after_find(ok) == IF ok THEN "resolved" ELSE "done"

after_write_unchecked(ok) == "staged"

\* The `?` on the awaited write_remote_data.
after_write(ok) == IF ok THEN "staged" ELSE "done"

\* gs_temp.write_remote_data(ctx, schema, source, query, temporary_storage,
\*                           args, temp_args, IfExists::Overwrite)
write_remote_data_call(query, args) ==
    [op |-> "write_remote_data", query |-> query, from_args |-> args,
     to_args |-> "default", if_exists |-> "Overwrite"]

\* gs_temp.local_data(ctx, schema, Query::default(), temporary_storage, temp_args)
local_data_call ==
    [op |-> "local_data", query |-> "default", from_args |-> "default",
     to_args |-> "n/a", if_exists |-> "n/a"]

LdInit ==
    /\ ld_temp \in TemporaryStorages
    /\ ld_query \in Queries
    /\ ld_args \in DriverArgsSet
    /\ ld_pc = "start"
    /\ ld_calls = <<>>
    /\ ld_staged = "none"
    /\ ld_result = "none"

LdIdle ==
    /\ ld_temp = {}
    /\ ld_query = "default"
    /\ ld_args = "default"
    /\ ld_pc = "idle"
    /\ ld_calls = <<>>
    /\ ld_staged = "none"
    /\ ld_result = "none"

\* let gs_temp = find_gs_temp_dir(&temporary_storage)?;
FindTemp ==
    /\ ld_pc = "start"
    /\ LET r == find_gs_temp_dir(ld_temp)
       IN  /\ ld_pc' = after_find(r.ok)
           /\ ld_result' = IF ld_pc' = "done" THEN "err_temp" ELSE ld_result
    /\ UNCHANGED <<ld_temp, ld_query, ld_args, ld_calls, ld_staged, pgvars, locvars, capvars>>

\* gs_temp.write_remote_data(...).await?
WriteRemote ==
    /\ ld_pc = "resolved"
    /\ ld_calls' = Append(ld_calls, write_remote_data_call(ld_query, ld_args))
    /\ \E ok \in BOOLEAN :
         /\ ld_staged' = (IF ok THEN "ok" ELSE "err")
         /\ ld_pc' = after_write(ok)
         /\ ld_result' = IF ld_pc' = "done" THEN "err_write" ELSE ld_result
    /\ UNCHANGED <<ld_temp, ld_query, ld_args, pgvars, locvars, capvars>>

\* gs_temp.local_data(...).await: streams, nothing, or an error
ReadLocal ==
    /\ ld_pc = "staged"
    /\ ld_calls' = Append(ld_calls, local_data_call)
    /\ ld_pc' = "done"
    /\ ld_result' \in {"some_streams", "no_streams", "err_read"}
    /\ UNCHANGED <<ld_temp, ld_query, ld_args, ld_staged, pgvars, locvars, capvars>>

local_data_helper ==
    \/ FindTemp
    \/ WriteRemote
    \/ ReadLocal

\* ------------------------------------------------------- specifications

vars == <<pgvars, locvars, capvars, ldvars>>

Init == PgInit /\ LocIdle /\ CapIdle /\ LdIdle

Next ==
    \/ write_local_data_helper
    \/ copy_from_async
    \/ Cancel

Spec == Init /\ [][Next]_vars

\* Every source read and every dispatched COPY returns, and the future is
\* polled until it resolves or is dropped.
FairSpec ==
    /\ Spec
    /\ WF_vars(write_local_data_helper)
    /\ WF_vars(copy_from_async)

LocatorInit == LocInit /\ PgIdle /\ CapIdle /\ LdIdle

LocatorNext ==
    \/ Parse
    \/ Show

LocatorSpec == LocatorInit /\ [][LocatorNext]_vars

CapabilityInit == CapInit /\ PgIdle /\ LocIdle /\ LdIdle

CapabilityNext == Supports

CapabilitySpec == CapabilityInit /\ [][CapabilityNext]_vars

LocalDataInit == LdInit /\ PgIdle /\ LocIdle /\ CapIdle

LocalDataNext == local_data_helper

LocalDataSpec == LocalDataInit /\ [][LocalDataNext]_vars

\* ---------------------------------------------------------------- claims

Issued(c) == \E k \in 1..Len(calls) : calls[k] = c
Started(i) == copyState[i] # "idle"
InProgress(i) == copyState[i] \in {"dispatched", "open", "sending"}
Loaded(i) == Rows(i) \subseteq db.rows
NewRows(n) == UNION {Rows(i) : i \in 1..n}
NoCopyInProgress == \A i \in StreamIds : ~InProgress(i)

\* C1: a schema with an array column is rejected before any backend call: when
\* the array-column error is returned, no connect, DROP, CREATE or COPY was made.
C1_ArrayRejectedBeforeBackend ==
    error = "array" => calls = <<>>

\* C2: at most one COPY is in progress, and the COPY of a stream is started
\* (transform spawned, connection opened, bytes sent) only when every stream
\* before it, in source order, has been committed.
C2_OneCopyAtATime ==
    /\ Cardinality({i \in StreamIds : InProgress(i)}) <= 1
    /\ \A i \in StreamIds :
         Started(i) =>
            /\ i <= pos
            /\ i <= Len(data)
            /\ data[i] = "Stream"
            /\ \A j \in 1..(i - 1) : copyState[j] = "committed" /\ Loaded(j)
    /\ \A i \in StreamIds : copySent[i] > 0 \/ <<"copy", i>> \in conns => Started(i)

C2_Witness ==
    /\ copyState[1] = "committed"
    /\ copyState[2] = "committed"
    /\ copyState[3] = "sending"
    /\ copySent[3] = 1

\* C3 as claimed: the returned sequence has one handle per input RowStream.
C3_OneHandlePerStream ==
    result = "ok" => handles = Cardinality({i \in 1..Len(data) : data[i] = "Stream"})

\* C3 as amended: the returned sequence has exactly one handle whatever the
\* number of RowStreams; nothing is loaded before it is polled; it resolves
\* successfully only when every RowStream is loaded, with an error only on a
\* failed source read, spawn or COPY, and never while a COPY is in progress.
C3_SingleHandleForAllStreams ==
    /\ handles = (IF result = "ok" THEN 1 ELSE 0)
    /\ (fut = "none") = (result # "ok")
    /\ fut = "ok" =>
          /\ pos = Len(data)
          /\ \A i \in 1..Len(data) : copyState[i] = "committed" /\ Loaded(i)
    /\ fut = "err" => error \in {"source", "spawn", "copy"}
    /\ fut \in {"ok", "err"} => NoCopyInProgress

C3_Witness ==
    /\ Len(data) = 3
    /\ handles = 1
    /\ fut = "ok"

\* C4: a failure of schema translation, connect, DROP or CREATE (or of any
\* step before the future is returned) leaves the destination as it was before
\* the call and no COPY started.
C4_NoPartialMutation ==
    result = "err" =>
        /\ db = db0
        /\ ~Issued("COPY")
        /\ \A i \in StreamIds : ~Started(i)

\* C5 as claimed: when the source's stream of streams fails, no DROP, CREATE
\* or COPY was executed.
C5_SourceFailureBeforeMutation ==
    error = "source" =>
        /\ ~Issued("DROP TABLE IF EXISTS")
        /\ ~Issued("CREATE TABLE")
        /\ ~Issued("CREATE TABLE IF NOT EXISTS")
        /\ ~Issued("COPY")

\* C5 as amended: a failure of the source's stream of streams at position
\* pos + 1 always fails the transfer, after the table was prepared and exactly
\* the streams before that position were copied; no later stream is started.
C5_SourceFailureStopsLaterStreams ==
    /\ error = "source" =>
          /\ fut = "err"
          /\ data[pos + 1] = "Err"
          /\ Issued(IF if_not_exists(if_exists) THEN "CREATE TABLE IF NOT EXISTS"
                                                ELSE "CREATE TABLE")
          /\ \A i \in 1..pos : copyState[i] = "committed" /\ Loaded(i)
          /\ \A i \in StreamIds : i > pos => ~Started(i)
    /\ fut = "ok" => \A i \in 1..Len(data) : data[i] # "Err"

C5_Witness ==
    /\ error = "source"
    /\ pos = 2
    /\ Issued("COPY")

\* C6: under Error with a table that exists before the call, the table is
\* never dropped, CREATE TABLE is issued without guard and fails, no COPY is
\* started and the table with its rows stays as it was.
C6_ErrorPolicyOnExistingTable ==
    (if_exists = "Error" /\ db0.present) =>
        /\ db = db0
        /\ ~Issued("DROP TABLE IF EXISTS")
        /\ ~Issued("CREATE TABLE IF NOT EXISTS")
        /\ ~Issued("COPY")
        /\ \A i \in StreamIds : ~Started(i)
        /\ result # "ok"
        /\ Issued("CREATE TABLE") => result = "err" /\ error = "create"

C6_Witness ==
    /\ if_exists = "Error"
    /\ db0.rows = OldRows
    /\ Issued("CREATE TABLE")
    /\ error = "create"

\* C7: under Overwrite, DROP TABLE IF EXISTS is issued whenever the table is
\* prepared and directly before the unguarded CREATE TABLE; after a successful
\* transfer the table holds exactly the rows of the new streams.
C7_OverwriteReplaces ==
    if_exists = "Overwrite" =>
        /\ ~Issued("CREATE TABLE IF NOT EXISTS")
        /\ \A k \in 1..Len(calls) :
             calls[k] = "CREATE TABLE" => k > 1 /\ calls[k - 1] = "DROP TABLE IF EXISTS"
        /\ result = "ok" => Issued("DROP TABLE IF EXISTS") /\ Issued("CREATE TABLE")
        /\ fut = "ok" => db.present /\ db.rows = NewRows(Len(data))

C7_Witness ==
    /\ if_exists = "Overwrite"
    /\ db0.rows = OldRows
    /\ Len(data) = 2
    /\ fut = "ok"

\* C8: under Append the table is never dropped, CREATE TABLE carries IF NOT
\* EXISTS, rows that existed before stay, and after a successful transfer the
\* table holds the old rows and the rows of the new streams.
C8_AppendKeepsRows ==
    if_exists = "Append" =>
        /\ ~Issued("DROP TABLE IF EXISTS")
        /\ ~Issued("CREATE TABLE")
        /\ db0.present => db.present
        /\ db0.rows \subseteq db.rows
        /\ result = "ok" => Issued("CREATE TABLE IF NOT EXISTS")
        /\ fut = "ok" => db.present /\ db.rows = db0.rows \cup NewRows(Len(data))

C8_Witness ==
    /\ if_exists = "Append"
    /\ db0.rows = OldRows
    /\ Len(data) = 2
    /\ fut = "ok"

\* The stream at which the future failed.
FailedAt == IF error = "source" THEN pos + 1 ELSE pos

\* C9: once the future has failed (source read, spawn or COPY), no further
\* stream is taken or started and no backend call is made; the streams before
\* the failing one stay committed, and nothing after a failed COPY is started.
C9_MidStreamErrorAborts ==
    /\ [](fut = "err" =>
            /\ NoCopyInProgress
            /\ \A i \in 1..(FailedAt - 1) : copyState[i] = "committed" /\ Loaded(i)
            /\ \A i \in StreamIds : i > pos => ~Started(i))
    /\ [](\A i \in StreamIds, j \in StreamIds :
            (i < j /\ copyState[i] = "failed") => ~Started(j))
    /\ [][fut = "err" => UNCHANGED <<fut, pos, copyState, copySent, db, calls, conns>>]_vars

C9_Witness ==
    /\ fut = "err"
    /\ error = "copy"
    /\ pos = 2
    /\ Loaded(1)
    /\ Len(data) = 3

\* C10: no stream is ever partly in the table; a future dropped between two
\* streams leaves the table with exactly the streams loaded so far, for good;
\* a dropped future takes no further stream and starts no further COPY.
C10_CancellationLeavesNoTornStream ==
    /\ [](\A i \in StreamIds : Loaded(i) \/ Rows(i) \cap db.rows = {})
    /\ []((fut = "dropped" /\ pc = "loop") =>
            /\ db.present
            /\ NoCopyInProgress
            /\ \A i \in StreamIds : Loaded(i) <=> i <= pos)
    /\ [][fut = "dropped" =>
            /\ fut' = fut /\ pos' = pos /\ pc' = pc
            /\ \A i \in StreamIds : Started(i)' = Started(i)
            /\ pc = "loop" => db' = db]_vars

C10_Witness ==
    /\ fut = "dropped"
    /\ pc = "loop"
    /\ pos = 1
    /\ Len(data) >= 2
    /\ db.rows \ db0.rows = Rows(1)


PrepConn == <<"prep", 0>>
CopyConn(i) == <<"copy", i>>
Count(c) == Cardinality({k \in 1..Len(calls) : calls[k] = c})
Lifecycle == {"DROP TABLE IF EXISTS", "CREATE TABLE", "CREATE TABLE IF NOT EXISTS"}
Creates == {"CREATE TABLE", "CREATE TABLE IF NOT EXISTS"}

\* C11: the preparation connection is open only inside the synchronous set-up,
\* before the helper returns, and the one step taken with it releases it; a
\* COPY connection is open only while its own closure runs, and every backend
\* step made while it is open is a step of that closure.
C11_ConnectionNeverAcrossAwait ==
    /\ [](PrepConn \in conns => pc = "connected" /\ result = "none" /\ fut = "none")
    /\ [](pc \in {"loop", "await_copy"} => PrepConn \notin conns)
    /\ [](\A i \in StreamIds : CopyConn(i) \in conns => copyState[i] \in {"open", "sending"})
    /\ [][(PrepConn \in conns) => (PrepConn \notin conns' /\ pc' \in {"prepared", "done"})]_vars
    /\ [][\A i \in StreamIds :
            (CopyConn(i) \in conns /\ (calls' # calls \/ db' # db \/ conns' # conns))
               => (copyState'[i] # copyState[i] \/ copySent'[i] # copySent[i])]_vars

C11_Witness ==
    /\ CopyConn(2) \in conns
    /\ copySent[2] = 1
    /\ pc = "await_copy"
    /\ opened = 3

\* C12: the answer of supports_write_remote_data is true exactly for a gs
\* source, whatever the destination and the source's address; no kind of
\* source ever got two different answers; the query makes no backend call.
C12_CapabilityDependsOnKindOnly ==
    /\ [](cap_last.asked => (cap_last.answer <=> cap_last.source.kind = "gs"))
    /\ [](\A k \in LocatorKinds : cap_seen[k] \subseteq {k = "gs"})
    /\ [](\A k \in LocatorKinds : Cardinality(cap_seen[k]) <= 1)
    /\ [][calls' = calls /\ ld_calls' = ld_calls]_vars

C12_Witness ==
    /\ cap_seen["gs"] = {TRUE}
    /\ cap_seen["postgres"] = {FALSE}
    /\ cap_seen["bigquery"] = {FALSE}
    /\ cap_last.asked
    /\ cap_last.dest.addr = "y"
    /\ cap_last.source.addr = "y"

\* C13: a string from_str accepts is written back unchanged by Display, and a
\* string that does not start with "bigquery:" is refused and gives no locator.
C13_LocatorRoundTrip ==
    /\ loc_shown # <<>> => loc_shown = loc_s
    /\ (loc_parsed.state = "done" /\ ~starts_with(loc_s, BIGQUERY_SCHEME)) =>
          /\ ~loc_parsed.ok
          /\ loc_parsed.project = <<>> /\ loc_parsed.dataset = <<>> /\ loc_parsed.table = <<>>
    /\ ~loc_parsed.ok => loc_shown = <<>>

C13_Witness ==
    /\ loc_shown # <<>>
    /\ Len(loc_shown) = Len(BIGQUERY_SCHEME) + MaxPath
    /\ loc_parsed.project # loc_parsed.table

\* C14: with no gs:// temporary location configured, local_data_helper fails
\* with the resolver's error and makes no call: no write to temporary storage
\* and no read from it.
C14_NoTempFailsFirst ==
    (~\E l \in ld_temp : IsGs(l)) =>
        /\ ld_calls = <<>>
        /\ ld_staged = "none"
        /\ ld_pc \in {"start", "done"}
        /\ ld_pc = "done" => ld_result = "err_temp"

C14_Witness ==
    /\ ld_temp = {"s3://temp", "file:///tmp"}
    /\ ld_pc = "done"
    /\ ld_result = "err_temp"

\* C15: the table is prepared once: at most one DROP and one CREATE are ever
\* issued, both before any COPY and before any stream is started; the helper
\* never goes back to translating the schema or connecting for preparation.
C15_PreparedOnceBeforeData ==
    /\ [](Count("DROP TABLE IF EXISTS") <= 1)
    /\ [](Count("CREATE TABLE") + Count("CREATE TABLE IF NOT EXISTS") <= 1)
    /\ [](\A j \in 1..Len(calls), k \in 1..Len(calls) :
            (calls[j] = "COPY" /\ calls[k] \in Lifecycle) => k < j)
    /\ [](\A i \in StreamIds :
            Started(i) => /\ result = "ok"
                          /\ Count("CREATE TABLE") + Count("CREATE TABLE IF NOT EXISTS") = 1)
    /\ [][(pc' \in {"start", "translated", "connected", "prepared"})
            => (pc \in {"start", "translated", "connected"} \/ pc' = pc)]_vars
    /\ [][columns' = columns /\ if_exists' = if_exists]_vars

C15_Witness ==
    /\ Count("COPY") = 3
    /\ Count("DROP TABLE IF EXISTS") = 1
    /\ Count("CREATE TABLE") = 1
    /\ copyState[3] = "committed"

\* C16: the COPY statement is built once and never changes; it has one line
\* per column, in the order of the columns, with a comma after every name but
\* the last; every COPY prepares exactly that statement.
C16_CopyStatementInSchemaOrder ==
    /\ [](copy_sql # <<>> =>
            /\ Len(copy_sql) = Len(columns)
            /\ \A i \in 1..Len(columns) :
                 /\ copy_sql[i].name = columns[i].name
                 /\ copy_sql[i].comma <=> i < Len(columns))
    /\ [](result = "ok" <=> copy_sql # <<>>)
    /\ [](\A i \in StreamIds :
            /\ copy_used[i] # <<>> => copy_used[i] = copy_sql
            /\ copyState[i] \in {"sending", "committed"} => copy_used[i] # <<>>)
    /\ [][copy_sql # <<>> => copy_sql' = copy_sql]_vars

C16_Witness ==
    /\ Len(columns) = 2
    /\ columns[1].name = "b"
    /\ columns[2].name = "a"
    /\ copy_used[1] # <<>>
    /\ copy_used[2] # <<>>

\* C17: the write into temporary storage is the first call, with Overwrite,
\* the caller's query and args; the read from temporary storage is the second,
\* with the default query and args, and is made only after the write ended
\* well; a failed write is returned as the error and nothing follows it.
C17_StageThenRead ==
    /\ [](Len(ld_calls) <= 2)
    /\ [](Len(ld_calls) >= 1 =>
            /\ ld_calls[1].op = "write_remote_data"
            /\ ld_calls[1].if_exists = "Overwrite"
            /\ ld_calls[1].query = ld_query
            /\ ld_calls[1].from_args = ld_args
            /\ ld_calls[1].to_args = "default")
    /\ [](Len(ld_calls) = 2 =>
            /\ ld_staged = "ok"
            /\ ld_calls[2].op = "local_data"
            /\ ld_calls[2].query = "default"
            /\ ld_calls[2].from_args = "default")
    /\ [](ld_staged = "err" => Len(ld_calls) = 1 /\ ld_pc = "done" /\ ld_result = "err_write")
    /\ [][ld_staged = "err" => UNCHANGED ldvars]_vars

C17_Witness ==
    /\ Len(ld_calls) = 2
    /\ ld_query = "where"
    /\ ld_args = "custom"
    /\ ld_result = "some_streams"

\* Whether the preparation connection was opened.
PrepOpened ==
    IF pc \in {"start", "translated"} \/ error \in {"translate", "connect"} THEN 0 ELSE 1

\* C18: at most one connection is open at any time, never the preparation
\* connection together with a COPY connection; once the preparation connection
\* was opened, the connections opened are that one plus one per COPY started
\* (issued, or about to be issued on its open connection).
C18_OneConnectionAtATime ==
    /\ Cardinality(conns) <= 1
    /\ (\E i \in StreamIds : Started(i)) => PrepConn \notin conns /\ PrepOpened = 1
    /\ opened = PrepOpened + Count("COPY")
                  + Cardinality({i \in StreamIds : copyState[i] = "open"})

C18_Witness ==
    /\ opened = 4
    /\ Count("COPY") = 3
    /\ Cardinality(conns) = 1

\* C19: a pending future eventually resolves (or is dropped); it resolves
\* successfully only when the source gave no error and every stream was
\* spawned, copied and committed, and with an error only when one of them
\* failed.
C19_FutureResolves ==
    /\ (fut = "pending") ~> (fut \in {"ok", "err", "dropped"})
    /\ [](fut = "ok" =>
            /\ pos = Len(data)
            /\ \A i \in 1..Len(data) :
                 data[i] = "Stream" /\ copyState[i] = "committed" /\ Loaded(i))
    /\ [](fut = "err" =>
            \/ error = "source" /\ data[pos + 1] = "Err"
            \/ error = "spawn" /\ copyState[pos] = "idle"
            \/ error = "copy" /\ copyState[pos] = "failed")

C19_Witness ==
    /\ fut = "ok"
    /\ Len(data) = 2
    /\ opened = 3

\* C20: with no RowStream the table lifecycle is still applied (under
\* Overwrite an existing table is dropped and created again, empty), no COPY
\* connection is opened, no row is sent, and the future, once polled, resolves
\* successfully.
C20_EmptyInputStillPrepares ==
    /\ [](data = <<>> =>
            /\ \A i \in StreamIds : ~Started(i) /\ copySent[i] = 0 /\ CopyConn(i) \notin conns
            /\ ~Issued("COPY")
            /\ opened <= 1
            /\ db.rows \subseteq db0.rows
            /\ fut # "err"
            /\ result = "ok" =>
                 /\ db.present
                 /\ \E c \in Creates : Issued(c)
                 /\ if_exists = "Overwrite" => Issued("DROP TABLE IF EXISTS") /\ db.rows = {}
                 /\ if_exists = "Append" => db.rows = db0.rows
                 /\ if_exists = "Error" => ~db0.present /\ db.rows = {})
    /\ [][(data = <<>> /\ pc = "loop" /\ pc' # pc) => fut' = "ok"]_vars

C20_Witness ==
    /\ data = <<>>
    /\ if_exists = "Overwrite"
    /\ db0.rows = OldRows
    /\ db = [present |-> TRUE, rows |-> {}]
    /\ fut = "ok"

====
